---- MODULE Spec2Model ----
(***************************************************************************)
(* slack-shell (src/main.go): a Slack bot that runs the command named in   *)
(* a desktop notification and relays the command's output to a thread.     *)
(*                                                                         *)
(* Text is a sequence of bytes.  An ASCII byte is the one-character string *)
(* of that character; a byte that cannot be written so is the string of    *)
(* its two hexadecimal digits: "C2" and "A0" are the bytes of a UTF-8      *)
(* non-breaking space, "60" is a backquote.                                *)
(*                                                                         *)
(* Every triggering event is served by its own goroutine (main.go:115);    *)
(* the state of one execution is the value at e of each variable below.    *)
(* The accumulator toSend is written by both drainer goroutines and read   *)
(* by the relay loop without any synchronisation.  `toSend += x` is a load *)
(* of toSend followed by a store of the concatenation, so the model gives  *)
(* each drainer a load step and a store step and lets them interleave; a    *)
(* load or a store of the string itself is taken as one step.              *)
(***************************************************************************)
EXTENDS Integers, Sequences, FiniteSets, TLC

\* ---- bounds of the model ----
MaxLines == 4        \* lines the spawned process writes, both streams together
MaxCharLimit == 3    \* largest value tried for the --char-limit flag
MaxPieces == 4       \* pieces an event text is assembled from (SpecParse)
MaxFairLines == 2    \* lines the process writes under SpecFair

Executions == {"E1", "E2"}
Streams == {"stdout", "stderr"}

\* ---- text helpers ----
NL == "\n"
NBSP == <<"C2", "A0">>

\* Go's s[lo:hi] on a string, and the bounds check the runtime makes for it.
Slice(s, lo, hi) == SubSeq(s, lo + 1, hi)
InBounds(s, lo, hi) == 0 <= lo /\ lo <= hi /\ hi <= Len(s)

IsPrefix(p, s) == Len(p) <= Len(s) /\ SubSeq(s, 1, Len(p)) = p

RECURSIVE Flatten(_)
Flatten(ss) == IF ss = <<>> THEN <<>> ELSE Head(ss) \o Flatten(Tail(ss))

\* positions at which rec occurs in s
Occurrences(rec, s) ==
    {i \in 1..(Len(s) - Len(rec) + 1) : SubSeq(s, i, i + Len(rec) - 1) = rec}

\* ---- the spawned process ----
\* The k-th line the process writes on a stream: stdout lines are one
\* character long, stderr lines two, and every line is different.
LineChars == [stdout |-> <<"a", "b", "c", "d", "e", "f">>, stderr |-> <<"x", "y", "z", "w", "v", "t">>]
LineText(s, k) ==
    IF s = "stdout" THEN <<LineChars[s][k]>> ELSE <<LineChars[s][k], LineChars[s][k]>>

AppendLineFront(buf, line) == line \o <<NL>> \o buf
\* toSend += string(line) + "\n", applied to the value loaded from toSend
AppendLine(buf, line) == buf \o line \o <<NL>>

Record(s, k) == AppendLine(<<>>, LineText(s, k))

\* ---- the message sink ----
\* body of the first reply, "Output is coming :P"
FirstReplyText ==
    <<"O", "u", "t", "p", "u", "t", " ", "i", "s", " ",
      "c", "o", "m", "i", "n", "g", " ", ":", "P">>
\* "Executing: " of the thread's opening message
ExecutingPrefix == <<"E", "x", "e", "c", "u", "t", "i", "n", "g", ":", " ">>

\* "\nCommand finished", the text main.go:561 appends once both streams are done
CompletionMarker ==
    <<NL, "C", "o", "m", "m", "a", "n", "d", " ", "f", "i", "n", "i", "s", "h", "e", "d">>

\* lastCall before any sink call; line is the call site in main.go
NoCall == [line |-> 0, page |-> 0, index |-> 0, body |-> <<>>, ok |-> TRUE]

VARIABLES
    \* inputs, fixed by Init
    content,          \* ev.Content of the event that triggers e
    procOut,          \* procOut[e][s]: number of lines the process writes on s
    charLimit, noStdout, noStderr,     \* command-line flags
    \* the program
    alive,            \* FALSE once an unrecovered panic has ended the program
    pc,               \* position of e's handler goroutine
    err,              \* what e's handler panicked with
    readableCommand,
    started,          \* cmd.Start() has succeeded
    toSend,
    streamFinished,   \* stdoutFinished / stderrFinished
    dpc, dpos, dline, dtmp,  \* drainer goroutines: position, lines read, line in hand, loaded toSend
    now, index, needsNewReply, hasFinished,
    threadTimestamp,  \* body of the thread's opening message, <<>> before it exists
    msgTimestamp,     \* page the next UpdateMessage goes to (0: none)
    pages,            \* pages[e][p]: the body last written to the p-th reply of the thread
    lastCall          \* the last sink call e made: call site, page, index, body, success

inputVars == <<content, procOut, charLimit, noStdout, noStderr>>
ctlVars == <<pc, err, alive>>
drainVars == <<dpc, dpos, dline, dtmp>>
relayVars == <<now, index, needsNewReply, hasFinished>>
sinkVars == <<threadTimestamp, msgTimestamp, pages, lastCall>>
vars == <<inputVars, ctlVars, readableCommand, started, toSend, streamFinished,
          drainVars, relayVars, sinkVars>>

stdoutFinished(e) == streamFinished[e]["stdout"]
stderrFinished(e) == streamFinished[e]["stderr"]

\* ---- ParseMessage (main.go:341-373) ----
Contains(s, sub) == Occurrences(sub, s) # {}

\* strings.ReplaceAll: non-overlapping occurrences, left to right
RECURSIVE ReplaceAll(_, _, _)
ReplaceAll(s, old, new) ==
    IF Len(s) < Len(old) THEN s
    ELSE IF SubSeq(s, 1, Len(old)) = old
         THEN new \o ReplaceAll(SubSeq(s, Len(old) + 1, Len(s)), old, new)
         ELSE <<Head(s)>> \o ReplaceAll(Tail(s), old, new)

UnescapeEntities(message) ==
    LET m1 == ReplaceAll(message, <<"&", "a", "m", "p", ";">>, <<"&">>)
        m2 == ReplaceAll(m1, <<"&", "l", "t", ";">>, <<"<">>)
    IN  ReplaceAll(m2, <<"&", "g", "t", ";">>, <<">">>)

\* url.QueryEscape: a space becomes "+", every other byte that is not
\* unreserved becomes "%" and its two hexadecimal digits.
\* The bytes of the model's texts that are escaped; letters and digits are not.
EscapedBytes == {"&", ";", "<", ">", "+", "%", ":", "@", "C2", "A0"}
PercentCode(b) ==
    CASE b = "&" -> <<"2", "6">>
      [] b = ";" -> <<"3", "B">>
      [] b = "<" -> <<"3", "C">>
      [] b = ">" -> <<"3", "E">>
      [] b = "+" -> <<"2", "B">>
      [] b = "%" -> <<"2", "5">>
      [] b = ":" -> <<"3", "A">>
      [] b = "@" -> <<"4", "0">>
      [] b = "C2" -> <<"C", "2">>
      [] b = "A0" -> <<"A", "0">>

RECURSIVE QueryEscape(_)
QueryEscape(s) ==
    IF s = <<>> THEN <<>>
    ELSE (IF Head(s) = " " THEN <<"+">>
          ELSE IF Head(s) \in EscapedBytes THEN <<"%">> \o PercentCode(Head(s))
          ELSE <<Head(s)>>) \o QueryEscape(Tail(s))

\* url.QueryUnescape: "+" becomes a space and "%XX" the byte XX; a malformed
\* escape makes the call return "" and an error.
RECURSIVE WellEscaped(_)
WellEscaped(s) ==
    IF s = <<>> THEN TRUE
    ELSE IF Head(s) # "%" THEN WellEscaped(Tail(s))
    ELSE /\ Len(s) >= 3
         /\ \E b \in EscapedBytes : PercentCode(b) = <<s[2], s[3]>>
         /\ WellEscaped(SubSeq(s, 4, Len(s)))

RECURSIVE Decode(_)
Decode(s) ==
    IF s = <<>> THEN <<>>
    ELSE IF Head(s) = "+" THEN <<" ">> \o Decode(Tail(s))
    ELSE IF Head(s) = "%"
         THEN <<CHOOSE b \in EscapedBytes : PercentCode(b) = <<s[2], s[3]>> >>
              \o Decode(SubSeq(s, 4, Len(s)))
    ELSE <<Head(s)>> \o Decode(Tail(s))

QueryUnescape(s) == IF WellEscaped(s) THEN Decode(s) ELSE <<>>

\* strings.Split(s, " ") and strings.Join(parts, " ")
RECURSIVE Split(_, _)
Split(s, sep) ==
    IF ~\E i \in 1..Len(s) : s[i] = sep THEN <<s>>
    ELSE LET i == CHOOSE j \in 1..Len(s) : s[j] = sep /\ \A k \in 1..(j - 1) : s[k] # sep
         IN  <<SubSeq(s, 1, i - 1)>> \o Split(SubSeq(s, i + 1, Len(s)), sep)

RECURSIVE Join(_, _)
Join(parts, sep) ==
    IF parts = <<>> THEN <<>>
    ELSE IF Len(parts) = 1 THEN parts[1]
    ELSE parts[1] \o <<sep>> \o Join(Tail(parts), sep)

\* copy-pasting from slack: the escaped form of U+00A0 is replaced by "+"
NormalizeNBSP(message) ==
    LET urlEncodedMessage == QueryEscape(message)
    IN  IF Contains(urlEncodedMessage, <<"%", "C", "2", "%", "A", "0">>)
        THEN QueryUnescape(ReplaceAll(urlEncodedMessage,
                                      <<"%", "C", "2", "%", "A", "0">>, <<"+">>))
        ELSE message

\* strings.Split(message, " ")[2:]
CommandTokensSkipOne(parts) == SubSeq(parts, 2, Len(parts))
CommandTokens(parts) == SubSeq(parts, 3, Len(parts))

\* outcome "ok": the readable command is returned; "error": the "Empty
\* command received." error is returned; "tokens": the slice expression
\* [2:] panics because Split returned fewer than two elements.  The bash
\* command line built around the base64 of the readable command is not
\* tracked: what the spawned process prints is an input of the model.
ParseMessage(message) ==
    LET parts == Split(NormalizeNBSP(UnescapeEntities(message)), " ")
    IN  IF Len(parts) < 2 THEN [outcome |-> "tokens", readable |-> <<>>]
        ELSE LET m == Join(CommandTokens(parts), " ")
             IN  IF m = <<>> THEN [outcome |-> "error", readable |-> <<>>]
                 ELSE [outcome |-> "ok", readable |-> m]

\* ---- initial states ----
\* "u: @s ls": a mention, the bot's name and a command
ValidContent == <<"u", ":", " ", "@", "s", " ", "l", "s">>
SampleContents == {ValidContent,
                   <<"u", ":", " ", "@", "s">>,
                   <<"u", ":", " ", "@", "s", " ">>,
                   <<"@", "s">>}

NoOutput == [s \in Streams |-> 0]

\* the state of the program before any event has been handled
Startup(triggered) ==
    /\ alive = TRUE
    /\ pc = [e \in Executions |-> IF e \in triggered THEN "parse" ELSE "idle"]
    /\ err = [e \in Executions |-> "none"]
    /\ readableCommand = [e \in Executions |-> <<>>]
    /\ started = [e \in Executions |-> FALSE]
    /\ toSend = [e \in Executions |-> <<>>]
    /\ streamFinished = [e \in Executions |-> [s \in Streams |-> TRUE]]
    /\ dpc = [e \in Executions |-> [s \in Streams |-> "none"]]
    /\ dpos = [e \in Executions |-> [s \in Streams |-> 0]]
    /\ dline = [e \in Executions |-> [s \in Streams |-> <<>>]]
    /\ dtmp = [e \in Executions |-> [s \in Streams |-> <<>>]]
    /\ now = [e \in Executions |-> <<>>]
    /\ index = [e \in Executions |-> 0]
    /\ needsNewReply = [e \in Executions |-> FALSE]
    /\ hasFinished = [e \in Executions |-> FALSE]
    /\ threadTimestamp = [e \in Executions |-> <<>>]
    /\ msgTimestamp = [e \in Executions |-> 0]
    /\ pages = [e \in Executions |-> <<>>]
    /\ lastCall = [e \in Executions |-> NoCall]

\* the flags main accepts: noStdout and noStderr together are refused (main.go:99)
Flags ==
    /\ charLimit \in 1..MaxCharLimit
    /\ noStdout \in BOOLEAN
    /\ noStderr \in BOOLEAN
    /\ ~(noStdout /\ noStderr)

\* one event, E1; any output of the process, any flags
Init ==
    /\ Flags
    /\ \E c \in SampleContents : content = [e \in Executions |-> IF e = "E1" THEN c ELSE <<>>]
    /\ \E o \in [Streams -> 0..MaxLines] :
           /\ o["stdout"] + o["stderr"] <= MaxLines
           /\ procOut = [e \in Executions |-> IF e = "E1" THEN o ELSE NoOutput]
    /\ Startup({"E1"})

\* one event, E1, with a command; the process prints at most MaxFairLines lines
InitFair ==
    /\ Flags
    /\ content = [e \in Executions |-> IF e = "E1" THEN ValidContent ELSE <<>>]
    /\ \E o \in [Streams -> 0..MaxFairLines] :
           /\ o["stdout"] + o["stderr"] <= MaxFairLines
           /\ procOut = [e \in Executions |-> IF e = "E1" THEN o ELSE NoOutput]
    /\ Startup({"E1"})

\* two events at once: E1's command prints at most one line on each stream,
\* E2's one line on stderr; pages of one character
InitMulti ==
    /\ charLimit = 1 /\ noStdout = FALSE /\ noStderr = FALSE
    /\ content = [e \in Executions |-> ValidContent]
    /\ \E o \in [Streams -> 0..1] :
           procOut = [e \in Executions |->
                         IF e = "E1" THEN o ELSE [stdout |-> 0, stderr |-> 1]]
    /\ Startup(Executions)

\* the texts an event can carry: up to MaxPieces of these pieces in a row
Pieces == {<<"u", " ">>, <<" ">>, <<"+">>, NBSP, <<"A0">>,
           <<"&", "a", "m", "p", ";">>, <<"&", "l", "t", ";">>, <<"&", "g", "t", ";">>,
           <<"l", "t", ";">>, <<"%", "C", "2", "%", "A", "0">>}
Messages == {Flatten(ps) : ps \in UNION {[1..n -> Pieces] : n \in 0..MaxPieces}}

\* one event, E1, with any text; the process prints nothing
InitParse ==
    /\ charLimit = 1 /\ noStdout = FALSE /\ noStderr = FALSE
    /\ \E m \in Messages : content = [e \in Executions |-> IF e = "E1" THEN m ELSE <<>>]
    /\ procOut = [e \in Executions |-> NoOutput]
    /\ Startup({"E1"})

\* the single-message program (main.go:397-591): one event, E1; it has no
\* --char-limit flag
InitSingle ==
    /\ charLimit = 1
    /\ noStdout \in BOOLEAN /\ noStderr \in BOOLEAN /\ ~(noStdout /\ noStderr)
    /\ \E c \in SampleContents : content = [e \in Executions |-> IF e = "E1" THEN c ELSE <<>>]
    /\ \E o \in [Streams -> 0..MaxLines] :
           /\ o["stdout"] + o["stderr"] <= MaxLines
           /\ procOut = [e \in Executions |-> IF e = "E1" THEN o ELSE NoOutput]
    /\ Startup({"E1"})

\* ---- steps shared by the actions ----
Goto(e, l) == pc' = [pc EXCEPT ![e] = l] /\ UNCHANGED <<err, alive>>

\* panic(err) and runtime panics: nothing recovers them, so the program ends.
\* reason: "parse" (ParseMessage's error), "tokens" (its slice [2:] out of
\* range), "sink" (a sink call's error), "spawn" (cmd.Start's error), "slice"
\* (a slice of the relay loop out of range)
Panic(e, reason) ==
    /\ pc' = [pc EXCEPT ![e] = "panicked"]
    /\ err' = [err EXCEPT ![e] = reason]
    /\ alive' = FALSE

\* SlackNewThread: rtm.PostMessage(channel, text)
SlackNewThread(e, site, message, ok) ==
    /\ threadTimestamp' = [threadTimestamp EXCEPT ![e] = IF ok THEN message ELSE @]
    /\ lastCall' = [lastCall EXCEPT ![e] =
           [line |-> site, page |-> 0, index |-> index[e], body |-> message, ok |-> ok]]
    /\ UNCHANGED <<msgTimestamp, pages>>

\* SlackNewReply: rtm.PostMessage(channel, thread, text); the new message's
\* timestamp is returned, "" on error
SlackNewReplyHandleKept(e, site, message, ok) ==
    /\ pages' = [pages EXCEPT ![e] = IF ok THEN Append(@, message) ELSE @]
    /\ msgTimestamp' = [msgTimestamp EXCEPT ![e] =
           IF ~ok THEN 0 ELSE IF site = 196 THEN Len(pages[e]) + 1 ELSE @]
    /\ lastCall' = [lastCall EXCEPT ![e] =
           [line |-> site, page |-> Len(pages[e]) + 1, index |-> index[e],
            body |-> message, ok |-> ok]]
    /\ UNCHANGED threadTimestamp
SlackNewReply(e, site, message, ok) ==
    /\ pages' = [pages EXCEPT ![e] = IF ok THEN Append(@, message) ELSE @]
    /\ msgTimestamp' = [msgTimestamp EXCEPT ![e] = IF ok THEN Len(pages[e]) + 1 ELSE 0]
    /\ lastCall' = [lastCall EXCEPT ![e] =
           [line |-> site, page |-> Len(pages[e]) + 1, index |-> index[e],
            body |-> message, ok |-> ok]]
    /\ UNCHANGED threadTimestamp

\* SlackUpdateMessage: rtm.UpdateMessage(channel, msgTimestamp, text); the
\* relay discards the returned timestamp
SlackUpdateMessage(e, site, message, ok) ==
    /\ pages' = [pages EXCEPT ![e] =
           IF ok THEN [@ EXCEPT ![msgTimestamp[e]] = message] ELSE @]
    /\ lastCall' = [lastCall EXCEPT ![e] =
           [line |-> site, page |-> msgTimestamp[e], index |-> index[e],
            body |-> message, ok |-> ok]]
    /\ UNCHANGED <<threadTimestamp, msgTimestamp>>

\* ---- the event handler goroutine (main.go:115-262) ----
\* 118-121
HandleEvent(e) ==
    /\ alive /\ pc[e] = "parse"
    /\ LET r == ParseMessage(content[e])
       IN  IF r.outcome = "ok"
           THEN readableCommand' = [readableCommand EXCEPT ![e] = r.readable]
                /\ Goto(e, "thread")
           ELSE Panic(e, IF r.outcome = "error" THEN "parse" ELSE "tokens")
                /\ UNCHANGED readableCommand
    /\ UNCHANGED <<inputVars, started, toSend, streamFinished, drainVars, relayVars, sinkVars>>

\* 124-138
NewThread(e) ==
    /\ alive /\ pc[e] = "thread"
    /\ \E ok \in BOOLEAN :
          /\ SlackNewThread(e, 124, ExecutingPrefix \o readableCommand[e], ok)
          /\ IF ok THEN Goto(e, "stdoutPipe") ELSE Panic(e, "sink")
    /\ toSend' = [toSend EXCEPT ![e] = <<>>]
    /\ UNCHANGED <<inputVars, readableCommand, started, streamFinished, drainVars, relayVars>>

\* 141-163 and 165-187: the flag is declared true; a stream that is not
\* suppressed gets its pipe, its flag reset and its drainer goroutine.
\* StdoutPipe and StderrPipe fail only on a command that is already started
\* or already has the stream set, which is not the case here.
AttachNoDrainer(e, s, suppressed, next) ==
    /\ alive
    /\ streamFinished' = [streamFinished EXCEPT ![e][s] = suppressed]
    /\ dpc' = [dpc EXCEPT ![e][s] = "none"]
    /\ Goto(e, next)
    /\ UNCHANGED <<inputVars, readableCommand, started, toSend, dpos, dline, dtmp,
                   relayVars, sinkVars>>
AttachDrainer(e, s, suppressed, next) ==
    /\ alive
    /\ streamFinished' = [streamFinished EXCEPT ![e][s] = suppressed]
    /\ dpc' = [dpc EXCEPT ![e][s] = IF suppressed THEN "none" ELSE "read"]
    /\ Goto(e, next)
    /\ UNCHANGED <<inputVars, readableCommand, started, toSend, dpos, dline, dtmp,
                   relayVars, sinkVars>>

AttachStdoutAlways(e) == pc[e] = "stdoutPipe" /\ AttachDrainer(e, "stdout", FALSE, "stderrPipe")
AttachStdout(e) == pc[e] = "stdoutPipe" /\ AttachDrainer(e, "stdout", noStdout, "stderrPipe")
AttachStderr(e) == pc[e] = "stderrPipe" /\ AttachDrainer(e, "stderr", noStderr, "start")

\* 190-193
StartProcess(e) ==
    /\ alive /\ pc[e] = "start"
    /\ \E ok \in BOOLEAN :
          IF ok THEN started' = [started EXCEPT ![e] = TRUE] /\ Goto(e, "firstReply")
          ELSE Panic(e, "spawn") /\ UNCHANGED started
    /\ UNCHANGED <<inputVars, readableCommand, toSend, streamFinished, drainVars,
                   relayVars, sinkVars>>

\* 196-204
FirstReply(e) ==
    /\ alive /\ pc[e] = "firstReply"
    /\ \E ok \in BOOLEAN :
          /\ SlackNewReply(e, 196, FirstReplyText, ok)
          /\ IF ok THEN Goto(e, "snapshot") ELSE Panic(e, "sink")
    /\ index' = [index EXCEPT ![e] = 0]
    /\ needsNewReply' = [needsNewReply EXCEPT ![e] = FALSE]
    /\ hasFinished' = [hasFinished EXCEPT ![e] = FALSE]
    /\ UNCHANGED <<inputVars, readableCommand, started, toSend, streamFinished, drainVars, now>>

\* ---- the drainer goroutines (main.go:149-162, 173-186) ----
\* buf.ReadLine(): the next line of the pipe, or an error at end of stream,
\* which leaves the loop and sets the stream's flag.  Nothing arrives on the
\* pipe before the process has been started.  Reading a line touches nothing
\* another goroutine sees, so it is one step with what follows it, the load
\* of toSend += string(line) + "\n".
ReadLine(e, s) ==
    /\ alive /\ dpc[e][s] = "read" /\ started[e]
    /\ IF dpos[e][s] < procOut[e][s]
       THEN /\ dline' = [dline EXCEPT ![e][s] = LineText(s, dpos[e][s] + 1)]
            /\ dpos' = [dpos EXCEPT ![e][s] = @ + 1]
            /\ dtmp' = [dtmp EXCEPT ![e][s] = toSend[e]]
            /\ dpc' = [dpc EXCEPT ![e][s] = "store"]
            /\ UNCHANGED streamFinished
       ELSE /\ streamFinished' = [streamFinished EXCEPT ![e][s] = TRUE]
            /\ dpc' = [dpc EXCEPT ![e][s] = "done"]
            /\ UNCHANGED <<dline, dpos, dtmp>>
    /\ UNCHANGED <<inputVars, ctlVars, readableCommand, started, toSend,
                   relayVars, sinkVars>>

\* the store of toSend += string(line) + "\n"
AppendStore(e, s) ==
    /\ alive /\ dpc[e][s] = "store"
    /\ toSend' = [toSend EXCEPT ![e] = AppendLine(dtmp[e][s], dline[e][s])]
    /\ dpc' = [dpc EXCEPT ![e][s] = "read"]
    /\ dtmp' = [dtmp EXCEPT ![e][s] = <<>>]
    /\ dline' = [dline EXCEPT ![e][s] = <<>>]
    /\ UNCHANGED <<inputVars, ctlVars, readableCommand, started, streamFinished,
                   dpos, relayVars, sinkVars>>

\* ---- the relay loop (main.go:205-260) ----
\* len(now) > charLimit*(index+1)
PastNextPage(text, limit, i) == Len(text) > limit * (i + 2)
PastPage(text, limit, i) == Len(text) > limit * (i + 1)

\* 206: now := toSend
Snapshot(e) ==
    /\ alive /\ pc[e] = "snapshot"
    /\ now' = [now EXCEPT ![e] = toSend[e]]
    /\ Goto(e, "emit")
    /\ UNCHANGED <<inputVars, readableCommand, started, toSend, streamFinished, drainVars,
                   index, needsNewReply, hasFinished, sinkVars>>

\* now is a variable of the loop body: once the sink call of an iteration has
\* been made it is not read again
Emitted(e) == now' = [now EXCEPT ![e] = <<>>]

relayFrame == <<inputVars, readableCommand, started, toSend, streamFinished, drainVars,
                hasFinished>>

\* 207-217: the active page is filled; the slice is taken from toSend, not
\* from the snapshot
FinalizeActivePage(e) ==
    /\ alive /\ pc[e] = "emit"
    /\ Emitted(e)
    /\ PastPage(now[e], charLimit, index[e]) /\ ~needsNewReply[e]
    /\ IF InBounds(toSend[e], charLimit * index[e], charLimit * (index[e] + 1))
       THEN \E ok \in BOOLEAN :
              /\ SlackUpdateMessage(e, 208,
                     Slice(toSend[e], charLimit * index[e], charLimit * (index[e] + 1)), ok)
              /\ index' = [index EXCEPT ![e] = @ + 1]
              /\ needsNewReply' = [needsNewReply EXCEPT ![e] = TRUE]
              /\ IF ok THEN Goto(e, "check") ELSE Panic(e, "sink")
       ELSE Panic(e, "slice") /\ UNCHANGED <<index, needsNewReply, sinkVars>>
    /\ UNCHANGED relayFrame

\* 219-226: a further full page goes to a new reply
ReplyFullPage(e) ==
    /\ alive /\ pc[e] = "emit"
    /\ Emitted(e)
    /\ needsNewReply[e] /\ PastPage(now[e], charLimit, index[e])
    /\ \E ok \in BOOLEAN :
          /\ SlackNewReply(e, 221,
                 Slice(now[e], charLimit * index[e], charLimit * (index[e] + 1)), ok)
          /\ index' = [index EXCEPT ![e] = @ + 1]
          /\ IF ok THEN Goto(e, "check") ELSE Panic(e, "sink")
    /\ UNCHANGED <<relayFrame, needsNewReply>>

\* 227-237: the rest goes to a new reply
ReplyTail(e) ==
    /\ alive /\ pc[e] = "emit"
    /\ Emitted(e)
    /\ needsNewReply[e] /\ ~PastPage(now[e], charLimit, index[e])
    /\ IF InBounds(now[e], charLimit * index[e], Len(now[e]) - 1)
       THEN \E ok \in BOOLEAN :
              /\ SlackNewReply(e, 228,
                     Slice(now[e], charLimit * index[e], Len(now[e]) - 1), ok)
              /\ needsNewReply' = [needsNewReply EXCEPT ![e] = FALSE]
              /\ IF ok THEN Goto(e, "check") ELSE Panic(e, "sink")
       ELSE Panic(e, "slice") /\ UNCHANGED <<needsNewReply, sinkVars>>
    /\ UNCHANGED <<relayFrame, index>>

\* 238-247: the active page is updated in place
UpdateTail(e) ==
    /\ alive /\ pc[e] = "emit"
    /\ Emitted(e)
    /\ ~needsNewReply[e] /\ ~PastPage(now[e], charLimit, index[e])
    /\ IF InBounds(now[e], charLimit * index[e], Len(now[e]) - 1)
       THEN \E ok \in BOOLEAN :
              /\ SlackUpdateMessage(e, 239,
                     Slice(now[e], charLimit * index[e], Len(now[e]) - 1), ok)
              /\ IF ok THEN Goto(e, "check") ELSE Panic(e, "sink")
       ELSE Panic(e, "slice") /\ UNCHANGED sinkVars
    /\ UNCHANGED <<relayFrame, index, needsNewReply>>

\* 250: hasFinished && !needsNewReply
StopInOverflow(finished, overflow) == finished
MayStop(finished, overflow) == finished /\ ~overflow

\* 250-259: leave the loop, or note that both streams are done and sleep
Check(e) ==
    /\ alive /\ pc[e] = "check"
    /\ IF MayStop(hasFinished[e], needsNewReply[e])
       THEN Goto(e, "finished") /\ UNCHANGED hasFinished
       ELSE /\ hasFinished' = [hasFinished EXCEPT ![e] =
                   @ \/ (stdoutFinished(e) /\ stderrFinished(e))]
            /\ Goto(e, "snapshot")
    /\ UNCHANGED <<inputVars, readableCommand, started, toSend, streamFinished, drainVars,
                   now, index, needsNewReply, sinkVars>>

\* ---- the single-message program (main.go:486-567) ----
\* "Received: " and the code fence put around the text: three backquotes,
\* byte 60 each
ReceivedPrefix == <<"R", "e", "c", "e", "i", "v", "e", "d", ":", " ">>
Fence == <<"60", "60", "60">>
Fenced(text) == Fence \o text \o Fence

\* 489-500: the text is parsed, toSend starts as "Received: <text>\n\n" and
\* is posted as the message every later update goes to
PostReceived(e) ==
    /\ alive /\ pc[e] = "parse"
    /\ LET r == ParseMessage(content[e])
           received == ReceivedPrefix \o content[e] \o <<NL, NL>>
       IN  IF r.outcome = "ok"
           THEN \E ok \in BOOLEAN :
                  /\ SlackNewReply(e, 497, received, ok)
                  /\ toSend' = [toSend EXCEPT ![e] = received]
                  /\ IF ok THEN Goto(e, "stdoutPipe") ELSE Panic(e, "sink")
           ELSE /\ Panic(e, IF r.outcome = "error" THEN "parse" ELSE "tokens")
                /\ UNCHANGED <<toSend, sinkVars>>
    /\ UNCHANGED <<inputVars, readableCommand, started, streamFinished, drainVars, relayVars>>

\* 551-554
StartProcessSingle(e) ==
    /\ alive /\ pc[e] = "start"
    /\ \E ok \in BOOLEAN :
          IF ok THEN started' = [started EXCEPT ![e] = TRUE] /\ Goto(e, "update")
          ELSE Panic(e, "spawn") /\ UNCHANGED started
    /\ UNCHANGED <<inputVars, readableCommand, toSend, streamFinished, drainVars,
                   relayVars, sinkVars>>

\* 557-558: the whole text goes to the one message; the result of
\* rtm.UpdateMessage is discarded
UpdateSingle(e) ==
    /\ alive /\ pc[e] = "update"
    /\ \E ok \in BOOLEAN : SlackUpdateMessage(e, 557, Fenced(toSend[e]), ok)
    /\ Goto(e, "check")
    /\ UNCHANGED <<inputVars, readableCommand, started, toSend, streamFinished, drainVars,
                   relayVars>>

\* 560-564: once both streams are done the marker is appended, the message
\* updated a last time and the loop left
CheckSingle(e) ==
    /\ alive /\ pc[e] = "check"
    /\ IF stdoutFinished(e) /\ stderrFinished(e)
       THEN /\ toSend' = [toSend EXCEPT ![e] = @ \o CompletionMarker]
            /\ \E ok \in BOOLEAN :
                  SlackUpdateMessage(e, 562, Fenced(toSend[e] \o CompletionMarker), ok)
            /\ Goto(e, "finished")
       ELSE Goto(e, "update") /\ UNCHANGED <<toSend, sinkVars>>
    /\ UNCHANGED <<inputVars, readableCommand, started, streamFinished, drainVars, relayVars>>

NextSingle ==
    \E e \in Executions :
        \/ PostReceived(e)
        \/ AttachStdout(e)
        \/ AttachStderr(e)
        \/ StartProcessSingle(e)
        \/ \E s \in Streams : ReadLine(e, s) \/ AppendStore(e, s)
        \/ UpdateSingle(e)
        \/ CheckSingle(e)

Next ==
    \E e \in Executions :
        \/ HandleEvent(e)
        \/ NewThread(e)
        \/ AttachStdout(e)
        \/ AttachStderr(e)
        \/ StartProcess(e)
        \/ FirstReply(e)
        \/ \E s \in Streams : ReadLine(e, s) \/ AppendStore(e, s)
        \/ Snapshot(e)
        \/ FinalizeActivePage(e)
        \/ ReplyFullPage(e)
        \/ ReplyTail(e)
        \/ UpdateTail(e)
        \/ Check(e)

Spec == Init /\ [][Next]_vars

\* the Go scheduler runs every goroutine that can run, and the relay's sleep
\* (main.go:200, 258) ends: once the process has been started, the handler
\* goroutine and each drainer goroutine take their next step if it stays
\* possible
RelayStep(e) ==
    \/ FirstReply(e) \/ Snapshot(e) \/ FinalizeActivePage(e)
    \/ ReplyFullPage(e) \/ ReplyTail(e) \/ UpdateTail(e) \/ Check(e)
DrainerStep(e, s) == ReadLine(e, s) \/ AppendStore(e, s)
Fairness ==
    \A e \in Executions :
        /\ WF_vars(RelayStep(e))
        /\ \A s \in Streams : WF_vars(DrainerStep(e, s))
SpecFair == InitFair /\ [][Next]_vars /\ Fairness

\* two concurrent executions
SpecMulti == InitMulti /\ [][Next]_vars

\* the single-message program
SpecSingle == InitSingle /\ [][NextSingle]_vars

\* ParseMessage on every event text
NextParse == \E e \in Executions : HandleEvent(e)
SpecParse == InitParse /\ [][NextParse]_vars

\* ---- properties ----
Enabled(s) == IF s = "stdout" THEN ~noStdout ELSE ~noStderr
Running(e) == pc[e] \notin {"idle", "finished", "panicked"}
RelaySites == {208, 221, 228, 239}
UpdateSites == {208, 239}

HasSuffix(s, suf) == Len(suf) <= Len(s) /\ SubSeq(s, Len(s) - Len(suf) + 1, Len(s)) = suf
CeilDiv(n, d) == (n + d - 1) \div d
Min(a, b) == IF a < b THEN a ELSE b

\* C1: when the relay loop has finished, the last bodies written to the
\* pages, concatenated in page order, are exactly the accumulated text.
C1_PagesConcatEqualText ==
    \A e \in Executions : pc[e] = "finished" => Flatten(pages[e]) = toSend[e]

\* C2: once the stdout drainer has appended its two lines, the stderr drainer
\* its two lines and both have set their flags, every one of the four records
\* is in the accumulator exactly once and the accumulator holds nothing else.
C2_NoLostAppend ==
    \A e \in Executions :
        (/\ \A s \in Streams : Enabled(s) /\ procOut[e][s] = 2 /\ dpc[e][s] = "done"
         /\ stdoutFinished(e) /\ stderrFinished(e))
        => /\ \A s \in Streams : \A k \in 1..2 :
                 Cardinality(Occurrences(Record(s, k), toSend[e])) = 1
           /\ Len(toSend[e]) = 2 * Len(Record("stdout", 1)) + 2 * Len(Record("stderr", 1))

\* C3: every body the relay loop passes to the sink, by UpdateMessage or by a
\* new reply, is at most charLimit characters long, and so is every page it
\* has written.
C3_PageWithinLimit ==
    \A e \in Executions :
        /\ lastCall[e].line \in RelaySites => Len(lastCall[e].body) <= charLimit
        /\ \A p \in 1..Len(pages[e]) :
               pages[e][p] = FirstReplyText \/ Len(pages[e][p]) <= charLimit

C3_FullPageReplied ==
    \E e \in Executions :
        /\ lastCall[e].line = 221 /\ lastCall[e].ok
        /\ Len(lastCall[e].body) = charLimit
        /\ Len(pages[e]) >= 2

\* C4: when the process writes nothing on the streams that are drained, the
\* relay does not fail by itself, and it finishes with exactly one page that
\* holds the completion marker and nothing else.
EmptyRun(e) == \A s \in Streams : Enabled(s) => procOut[e][s] = 0
C4_EmptyOutputOnePage ==
    \A e \in Executions :
        EmptyRun(e) =>
            /\ err[e] # "slice"
            /\ pc[e] = "finished" => pages[e] = <<CompletionMarker>>

\* C5: when the relay loop has finished, its last sink call wrote the tail
\* followed by the completion marker to the active page.
C5_MarkerIsLastWrite ==
    \A e \in Executions :
        pc[e] = "finished" =>
            /\ lastCall[e].page = msgTimestamp[e]
            /\ HasSuffix(lastCall[e].body, CompletionMarker)

\* C6: when the relay loop has finished with n characters accumulated, there
\* are ceil(n / charLimit) pages and the p-th page holds the characters
\* [charLimit*(p-1), min(charLimit*p, n)).
C6_PageCountAndRanges ==
    \A e \in Executions :
        pc[e] = "finished" =>
            /\ Len(pages[e]) = CeilDiv(Len(toSend[e]), charLimit)
            /\ \A p \in 1..Len(pages[e]) :
                   pages[e][p] = Slice(toSend[e], charLimit * (p - 1),
                                       Min(charLimit * p, Len(toSend[e])))

\* C7: two lines of one stream that are both in the accumulator are there in
\* the order the stream's drainer read them.
C7_StreamOrderKept ==
    \A e \in Executions : \A s \in Streams :
        \A k \in 1..procOut[e][s] : \A j \in (k + 1)..procOut[e][s] :
            \A i1 \in Occurrences(Record(s, k), toSend[e]) :
                \A i2 \in Occurrences(Record(s, j), toSend[e]) : i1 < i2

C7_LinesInterleaved ==
    \E e \in Executions :
        toSend[e] = Record("stdout", 1) \o Record("stderr", 1) \o Record("stdout", 2)

\* C8: of two consecutive UpdateMessage calls on the same page with the same
\* index, the body of the first is a prefix of the body of the second.
C8_UpdatesPrefixConsistent ==
    [][\A e \in Executions :
          (/\ lastCall[e].line \in UpdateSites /\ lastCall'[e].line \in UpdateSites
           /\ lastCall'[e].page = lastCall[e].page
           /\ lastCall'[e].index = lastCall[e].index)
          => IsPrefix(lastCall[e].body, lastCall'[e].body)]_vars

\* C9: a sink failure in one execution leaves every other execution that is
\* still under way able to go on.
C9_OthersUnaffected ==
    \A e1 \in Executions : \A e2 \in Executions \ {e1} :
        (err[e1] = "sink" /\ Running(e2)) => alive

\* C10: for an event text that, once the entity escapes are replaced, has two
\* leading space-delimited tokens and a non-empty remainder, ParseMessage
\* succeeds and the readable command is that remainder.
RECURSIVE AfterSpaces(_, _)
AfterSpaces(s, n) ==
    IF n = 0 \/ s = <<>> THEN s
    ELSE AfterSpaces(Tail(s), IF Head(s) = " " THEN n - 1 ELSE n)
SpaceCount(s) == Cardinality({i \in 1..Len(s) : s[i] = " "})
HasCommand(text) == SpaceCount(text) >= 2 /\ AfterSpaces(text, 2) # <<>>
Parsed(e) == pc[e] \notin {"idle", "parse"}

C10_SuffixAfterUnescape ==
    \A e \in Executions :
        LET text == UnescapeEntities(content[e])
        IN  (Parsed(e) /\ HasCommand(text))
            => pc[e] = "thread" /\ readableCommand[e] = AfterSpaces(text, 2)

\* C10 as amended: the tokens and the remainder are those of the text in
\* which the entity escapes are replaced and every non-breaking space is a
\* regular space.
C10_SuffixAfterNormalize ==
    \A e \in Executions :
        LET text == ReplaceAll(UnescapeEntities(content[e]), NBSP, <<" ">>)
        IN  (Parsed(e) /\ HasCommand(text))
            => pc[e] = "thread" /\ readableCommand[e] = AfterSpaces(text, 2)

C10_ParsedEntityAndNBSP ==
    \E e \in Executions :
        /\ pc[e] = "thread"
        /\ Contains(content[e], NBSP)
        /\ Contains(content[e], <<"&", "l", "t", ";">>)
        /\ Contains(readableCommand[e], <<"<">>)


\* the event text as ParseMessage splits it: entities unescaped, U+00A0 a space
Normalized(message) == NormalizeNBSP(UnescapeEntities(message))

\* C11: an event whose text carries no command after the mention prefix
\* (fewer than three tokens, or nothing after the second space) ends in the
\* "Empty command received" error value, with no sink call made and no
\* process started.
C11_EmptyIsParseError ==
    \A e \in Executions :
        Parsed(e) /\ ~HasCommand(Normalized(content[e]))
            => err[e] = "parse" /\ lastCall[e] = NoCall /\ ~started[e]


\* C12: the relay loop has stopped only where both completion flags are true
\* and needsNewReply is false; while a drainer has not completed the relay
\* has not finished.
C12_StopsOnlyWhenDone ==
    \A e \in Executions :
        pc[e] = "finished"
            => stdoutFinished(e) /\ stderrFinished(e) /\ ~needsNewReply[e]

\* the loop has stopped after it went through overflow mode
C12_StoppedAfterOverflow ==
    \E e \in Executions : pc[e] = "finished" /\ index[e] >= 1 /\ Len(pages[e]) >= 2


\* C13: under fair scheduling an execution whose process has started, and
\* whose sink calls all succeed, eventually leaves the relay loop, whatever
\* the length of the output.
C13_EventuallyFinished ==
    \A e \in Executions : started[e] ~> (pc[e] = "finished" \/ err[e] = "sink")


\* C14: the loop does not stop on the tick that first sees both flags true;
\* it makes one more tick, so when it has stopped the last sink call was a
\* tail taken from a snapshot equal to the final accumulator, and that tail
\* runs to the end of the accumulator: nothing buffered is left unsent.
C14_FinalTailSentWhole ==
    \A e \in Executions :
        pc[e] = "finished"
            => /\ lastCall[e].line \in {228, 239}
               /\ lastCall[e].body
                      = Slice(toSend[e], charLimit * index[e], Len(toSend[e]))


\* C15: a page that is not the most recent reply, or that has just been
\* filled (needsNewReply), is not written again; the sink call made in
\* overflow mode is a new reply; every update goes to the most recent reply.
C15_Step(e) ==
    /\ Len(pages'[e]) >= Len(pages[e])
    /\ \A p \in 1..Len(pages[e]) :
           (p < Len(pages[e]) \/ needsNewReply[e]) => pages'[e][p] = pages[e][p]
    /\ (pc[e] = "emit" /\ pc'[e] = "check" /\ needsNewReply[e])
           => /\ lastCall'[e].line \in {221, 228}
              /\ Len(pages'[e]) = Len(pages[e]) + 1
              /\ msgTimestamp'[e] = Len(pages'[e])
    /\ (pc[e] = "emit" /\ pc'[e] = "check" /\ ~needsNewReply[e])
           => /\ lastCall'[e].line \in UpdateSites
              /\ lastCall'[e].page = Len(pages[e])
C15_FinalizedPageKept == [][\A e \in Executions : C15_Step(e)]_vars

\* a second page has been filled by an update, after the first was
C15_SecondPageFinalized ==
    \E e \in Executions :
        /\ lastCall[e].line = 208 /\ lastCall[e].ok /\ lastCall[e].page >= 2
        /\ Len(pages[e][1]) = charLimit


\* C16: once a sink call of an execution has failed, that execution makes no
\* further sink call.
C16_NoCallAfterFailure ==
    [][\A e \in Executions : ~lastCall[e].ok => lastCall'[e] = lastCall[e]]_vars


\* C17: in every step the old value of the accumulator is a prefix of the new
\* one, whatever the interleaving of the two drainers.
C17_AppendOnly ==
    [][\A e \in Executions : IsPrefix(toSend[e], toSend'[e])]_vars


\* C18: wherever the process of an execution has been started, every stream
\* that is not suppressed has had its pipe obtained and its drainer launched.
C18_DrainersBeforeStart ==
    \A e \in Executions :
        started[e] => \A s \in Streams : Enabled(s) => dpc[e][s] # "none"

\* the process has just been started with both streams enabled: both
\* drainers wait for its first line
C18_StartedWithBothDrainers ==
    \E e \in Executions :
        /\ started[e] /\ pc[e] = "firstReply" /\ ~noStdout /\ ~noStderr
        /\ \A s \in Streams : dpc[e][s] = "read" /\ dpos[e][s] = 0


\* C19: the slice the relay is about to take is within the bounds of the
\* text it is taken from: the full page of an update from the accumulator,
\* the full page of a reply from the snapshot, a tail from the snapshot up to
\* its length minus one.
C19_SlicesInBounds ==
    \A e \in Executions :
        pc[e] = "emit" =>
            IF PastPage(now[e], charLimit, index[e])
            THEN InBounds(IF needsNewReply[e] THEN now[e] ELSE toSend[e],
                          charLimit * index[e], charLimit * (index[e] + 1))
            ELSE InBounds(now[e], charLimit * index[e], Len(now[e]) - 1)


\* C20: a suppressed stream has its flag true in every state and no drainer;
\* none of the bytes the process writes on it is in the accumulator; and the
\* relay sets hasFinished on the flag of the other stream alone.
OtherStream(s) == IF s = "stdout" THEN "stderr" ELSE "stdout"
StreamBytes(s) == {LineChars[s][k] : k \in 1..Len(LineChars[s])}
C20_State(e, s) ==
    /\ streamFinished[e][s]
    /\ dpc[e][s] = "none" /\ dpos[e][s] = 0
    /\ \A i \in 1..Len(toSend[e]) : toSend[e][i] \notin StreamBytes(s)
C20_Step(e, s) ==
    /\ streamFinished'[e][s]
    /\ (pc[e] = "check" /\ pc'[e] = "snapshot")
           => hasFinished'[e] = (hasFinished[e] \/ streamFinished[e][OtherStream(s)])
C20_SuppressedStreamInert ==
    /\ [](\A e \in Executions : \A s \in Streams : ~Enabled(s) => C20_State(e, s))
    /\ [][\A e \in Executions : \A s \in Streams : ~Enabled(s) => C20_Step(e, s)]_vars

\* the loop has stopped with stdout suppressed, the process having written
\* on both streams
C20_FinishedWithStdoutSuppressed ==
    \E e \in Executions :
        /\ noStdout /\ pc[e] = "finished"
        /\ procOut[e]["stdout"] >= 1 /\ procOut[e]["stderr"] >= 1
        /\ toSend[e] # <<>>

====
